---------------------------- MODULE Spec2Model ----------------------------
(***************************************************************************)
(* mod_crowdsec: the access-checker gate of src/mod_crowdsec.c.            *)
(*                                                                         *)
(* The module is configured by directives (the set_crowdsec functions),    *)
(* the host                                                                *)
(* merges the route records of two scopes at start-up                      *)
(* (merge_crowdsec_dir_config), crowdsec_post_config creates the cache     *)
(* mutex, and then every request runs crowdsec_check_access ->             *)
(* crowdsec_query -> crowdsec_from_cache / crowdsec_proxy /                *)
(* crowdsec_to_cache on one of the host's workers.                         *)
(***************************************************************************)
EXTENDS Integers, Sequences, FiniteSets, TLC

-----------------------------------------------------------------------------
(* Bounds of the model.                                                    *)

\* the clock stops advancing at MaxTime
MaxTime == 1

\* the longest CrowdsecURL argument the parser is given
MaxUrlLen == 6

-----------------------------------------------------------------------------
(* Program constants.                                                      *)

OK == 0
DECLINED == -1
HTTP_OK == 200
HTTP_UNAUTHORIZED == 401
HTTP_FORBIDDEN == 403
HTTP_NOT_FOUND == 404
HTTP_TOO_MANY_REQUESTS == 429
HTTP_INTERNAL_SERVER_ERROR == 500
HTTP_BAD_GATEWAY == 502
HTTP_SERVICE_UNAVAILABLE == 503
CROWDSEC_CACHE_TIMEOUT_DEFAULT == 60
MAX_VAL_LEN == 256

\* crowdsec_fallback
CROWDSEC_FAIL == "CROWDSEC_FAIL"
CROWDSEC_BLOCK == "CROWDSEC_BLOCK"
CROWDSEC_ALLOW == "CROWDSEC_ALLOW"

NULL == "NULL"

\* apr_status_t values the collaborators hand back
APR_SUCCESS == "APR_SUCCESS"
APR_NOTFOUND == "APR_NOTFOUND"
APR_EBUSY == "APR_EBUSY"
APR_EGENERAL == "APR_EGENERAL"
APR_ENOSPC == "APR_ENOSPC"

-----------------------------------------------------------------------------
(* Strings whose bytes matter are sequences of one-character strings.      *)

Digits == <<"0", "1", "2", "3", "4", "5", "6", "7", "8", "9">>

IsDigit(c) == \E i \in 1..10 : Digits[i] = c

DigitVal(c) == (CHOOSE i \in 1..10 : Digits[i] = c) - 1

RECURSIVE atoi_from(_, _, _)
atoi_from(s, i, acc) ==
    IF i > Len(s) \/ ~IsDigit(s[i]) THEN acc
    ELSE atoi_from(s, i + 1, acc * 10 + DigitVal(s[i]))

\* atoi(3): the leading decimal digits, 0 when there are none
atoi(s) == atoi_from(s, 1, 0)

\* the client addresses of the model: the IPv6 loopback (3 bytes) and an
\* IPv4 address
IP_LOOPBACK == <<":", ":", "1">>
IP_V4 == <<"1", ".", "2", ".", "3", ".", "4">>
IP_V6 == <<"1", ":", ":", "1">>
IPs == {IP_LOOPBACK, IP_V4, IP_V6}

\* mutant: the key is padded when it is shorter than 3 bytes
crowdsec_cache_key_pads_below_3(ip) ==
    IF Len(ip) < 3
    THEN [i \in 1..4 |-> IF i <= Len(ip) THEN ip[i] ELSE " "]
    ELSE ip

\* crowdsec_cache_key: keys shorter than 4 bytes are padded with spaces
crowdsec_cache_key(ip) ==
    IF Len(ip) < 4
    THEN [i \in 1..4 |-> IF i <= Len(ip) THEN ip[i] ELSE " "]
    ELSE ip

CacheKeys == {crowdsec_cache_key(ip) : ip \in IPs}

-----------------------------------------------------------------------------
(* Response bodies.  A body is named by its text; strlen gives its size.   *)

BODY_NULL == "null"
BODY_BAN == "[{\"scenario\":\"ban\"}]"
\* a decision list longer than the retrieve buffer
BODY_LONG == "[{\"scenario\":\"ban\"}, ... 300 bytes]"
\* the body crowdsec_proxy makes up under CrowdsecFallback block
BODY_ERROR == "[{\"error\":\"'target' returned N\"}]"

UpstreamBodies == {BODY_NULL, BODY_BAN, BODY_LONG}
Bodies == UpstreamBodies \cup {BODY_ERROR}

strlen(b) ==
    CASE b = BODY_NULL -> 4
      [] b = BODY_BAN -> 20
      [] b = BODY_LONG -> 300
      [] b = BODY_ERROR -> 70


-----------------------------------------------------------------------------
(* find_base_lapi_url: one left-to-right scan over the bytes of url.       *)
(* A char pointer is NULLP or Ptr(s); scheme, authority and path are NULLP *)
(* until the scan sets them.                                               *)

NULLP == <<>>
Ptr(s) == <<s>>
Deref(p) == p[1]

\* the terminating byte of a C string
NUL == "NUL"

\* apr_pstrndup(pool, s + from, n): bytes from+1 .. from+n of s (0-based from)
pstrndup(s, from, n) == Ptr(SubSeq(s, from + 1, from + n))

\* url[i] of the C string (0-based), NUL at the terminator
CharAt(s, i) == IF i + 1 <= Len(s) THEN s[i + 1] ELSE NUL

RECURSIVE url_scan(_, _, _, _, _)
url_scan(url, i, scheme, authority, start) ==
    IF CharAt(url, i) = NUL
    THEN [err |-> NULL, scheme |-> scheme, authority |-> authority,
          start |-> start, path |-> NULLP]
    ELSE IF scheme = NULLP
    THEN IF CharAt(url, i) = ":"
         THEN IF CharAt(url, i + 1) # "/" \/ CharAt(url, i + 2) # "/"
              THEN [err |-> "invalid lapi base url: \"//\" after scheme not found",
                    scheme |-> pstrndup(url, 0, i), authority |-> NULLP,
                    start |-> start, path |-> NULLP]
              ELSE url_scan(url, i + 3, pstrndup(url, 0, i), authority, i + 3)
         ELSE url_scan(url, i + 1, scheme, authority, start)
    ELSE IF authority = NULLP
    THEN IF CharAt(url, i) = "/"
         THEN url_scan(url, i, scheme, pstrndup(url, start, i - start), start)
         ELSE url_scan(url, i + 1, scheme, authority, start)
    ELSE [err |-> NULL, scheme |-> scheme, authority |-> authority,
          start |-> start, path |-> pstrndup(url, i, Len(url) - i)]

\* mutant: an empty authority is let through
find_base_lapi_url_without_authority_check(url) ==
    LET sc == url_scan(url, 0, NULLP, NULLP, 0)
    IN  IF sc.err # NULL
        THEN [err |-> sc.err, url |-> NULLP]
        ELSE IF sc.scheme = NULLP
        THEN [err |-> "invalid lapi base url: scheme is missing", url |-> NULLP]
        ELSE [err |-> NULL,
              url |-> Ptr([scheme |-> Deref(sc.scheme),
                           authority |-> IF sc.authority = NULLP
                                         THEN Deref(pstrndup(url, sc.start,
                                                             Len(url) - sc.start))
                                         ELSE Deref(sc.authority),
                           path |-> sc.path])]

find_base_lapi_url(url) ==
    LET sc == url_scan(url, 0, NULLP, NULLP, 0)
    IN  IF sc.err # NULL
        THEN [err |-> sc.err, url |-> NULLP]
        ELSE IF sc.scheme = NULLP
        THEN [err |-> "invalid lapi base url: scheme is missing", url |-> NULLP]
        ELSE IF sc.authority = NULLP /\ CharAt(url, sc.start) = NUL
        THEN [err |-> "invalid lapi base url: authority is missing", url |-> NULLP]
        ELSE [err |-> NULL,
              url |-> Ptr([scheme |-> Deref(sc.scheme),
                           authority |-> IF sc.authority = NULLP
                                         THEN Deref(pstrndup(url, sc.start,
                                                             Len(url) - sc.start))
                                         ELSE Deref(sc.authority),
                           path |-> sc.path])]

\* the CrowdsecURL arguments of the model
URL_GOOD == <<"h", ":", "/", "/", "a">>
URL_NOSLASH == <<"h", ":", "a">>
UrlArgs == {URL_GOOD, URL_NOSLASH}

\* every string of a letter, ':' and '/' the parser can be given
UrlAlphabet == {"h", ":", "/"}
Urls == UNION {[1..n -> UrlAlphabet] : n \in 1..MaxUrlLen}

-----------------------------------------------------------------------------
(* Configuration records.                                                  *)

\* crowdsec_config_rec after apr_pcalloc: every field zero
create_crowdsec_dir_config ==
    [response |-> NULL, location |-> NULL, enable |-> FALSE,
     fallback |-> CROWDSEC_FAIL, blockedhttpcode |-> 0,
     enable_set |-> FALSE, fallback_set |-> FALSE,
     location_set |-> FALSE, blockedhttpcode_set |-> FALSE]

\* mutant: a narrower scope that sets anything replaces the enclosing
\* scope's record as a whole
merge_crowdsec_dir_config_wholesale(base, add) ==
    IF add.enable_set \/ add.fallback_set \/ add.location_set
       \/ add.blockedhttpcode_set
    THEN [add EXCEPT !.response = NULL]
    ELSE [base EXCEPT !.response = NULL]

\* the new record is zeroed, then the four settings and their flags are
\* taken field by field; response is not copied
merge_crowdsec_dir_config(base, add) ==
    [create_crowdsec_dir_config EXCEPT
        !.enable = IF add.enable_set = FALSE THEN base.enable ELSE add.enable,
        !.enable_set = add.enable_set \/ base.enable_set,
        !.fallback = IF add.fallback_set = FALSE THEN base.fallback
                     ELSE add.fallback,
        !.fallback_set = add.fallback_set \/ base.fallback_set,
        !.location = IF add.location_set = FALSE THEN base.location
                     ELSE add.location,
        !.location_set = add.location_set \/ base.location_set,
        !.blockedhttpcode = IF add.blockedhttpcode_set = FALSE
                            THEN base.blockedhttpcode
                            ELSE add.blockedhttpcode,
        !.blockedhttpcode_set = add.blockedhttpcode_set
                                \/ base.blockedhttpcode_set]

\* crowdsec_server_rec after apr_pcalloc, with the default cache timeout
create_crowdsec_server_config ==
    [url |-> NULLP, key |-> NULL, cache_mutex |-> NULL,
     cache_provider |-> NULL, cache_instance |-> NULL,
     cache_timeout |-> CROWDSEC_CACHE_TIMEOUT_DEFAULT,
     url_set |-> FALSE, key_set |-> FALSE, cache_provider_set |-> FALSE,
     cache_timeout_set |-> FALSE]

\* the new record is zeroed, then the url, the key, the provider with its
\* instance and the timeout are taken with their flags; cache_mutex is
\* left NULL
merge_crowdsec_server_config(base, add) ==
    [url |-> IF add.url_set = FALSE THEN base.url ELSE add.url,
     url_set |-> add.url_set \/ base.url_set,
     key |-> IF add.key_set = FALSE THEN base.key ELSE add.key,
     key_set |-> add.key_set \/ base.key_set,
     cache_mutex |-> NULL,
     cache_provider |-> IF add.cache_provider_set = FALSE
                        THEN base.cache_provider ELSE add.cache_provider,
     cache_instance |-> IF add.cache_provider_set = FALSE
                        THEN base.cache_instance ELSE add.cache_instance,
     cache_provider_set |-> add.cache_provider_set
                            \/ base.cache_provider_set,
     cache_timeout |-> IF add.cache_timeout_set = FALSE
                       THEN base.cache_timeout ELSE add.cache_timeout,
     cache_timeout_set |-> add.cache_timeout_set
                           \/ base.cache_timeout_set]

\* the directive arguments of the model
FallbackArgs == {"fail", "block", "allow", "deny"}
CodeArgs == {<<"4", "0", "3">>, <<"4", "2", "9">>, <<"5", "0", "0">>,
             <<"2", "0", "0">>, <<"x">>, <<"4", "2", "9", "x">>}
TimeoutArgs == {<<"1">>}
CacheArgs == {"shmcb", "nosuch"}
\* the parsed CrowdsecLocation expression
LOCATION_EXPR == "expr"

\* set_crowdsec
set_crowdsec(c, flag) ==
    [err |-> NULL, conf |-> [c EXCEPT !.enable = flag, !.enable_set = TRUE]]

\* set_crowdsec_fallback
set_crowdsec_fallback(c, fallback) ==
    IF fallback = "fail"
    THEN [err |-> NULL,
          conf |-> [c EXCEPT !.fallback = CROWDSEC_FAIL, !.fallback_set = TRUE]]
    ELSE IF fallback = "block"
    THEN [err |-> NULL,
          conf |-> [c EXCEPT !.fallback = CROWDSEC_BLOCK, !.fallback_set = TRUE]]
    ELSE IF fallback = "allow"
    THEN [err |-> NULL,
          conf |-> [c EXCEPT !.fallback = CROWDSEC_ALLOW, !.fallback_set = TRUE]]
    ELSE [err |-> "Unknown CrowdsecFallback", conf |-> c]

\* mutant: 200 is let through as well, as the comment in the switch has it
set_crowdsec_blockedhttpcode_with_200(c, blockedhttpcode) ==
    LET http_code == atoi(blockedhttpcode)
    IN  IF http_code \in {HTTP_OK, HTTP_FORBIDDEN,
                          HTTP_INTERNAL_SERVER_ERROR, HTTP_TOO_MANY_REQUESTS}
        THEN [err |-> NULL,
              conf |-> [c EXCEPT !.blockedhttpcode = http_code,
                                 !.blockedhttpcode_set = TRUE]]
        ELSE [err |-> "Unknown CrowdsecBlockedHTTPCode", conf |-> c]

\* set_crowdsec_blockedhttpcode
set_crowdsec_blockedhttpcode(c, blockedhttpcode) ==
    LET http_code == atoi(blockedhttpcode)
    IN  IF http_code \in {HTTP_FORBIDDEN, HTTP_INTERNAL_SERVER_ERROR,
                          HTTP_TOO_MANY_REQUESTS}
        THEN [err |-> NULL,
              conf |-> [c EXCEPT !.blockedhttpcode = http_code,
                                 !.blockedhttpcode_set = TRUE]]
        ELSE [err |-> "Unknown CrowdsecBlockedHTTPCode", conf |-> c]

\* set_crowdsec_location: the location is assigned before the parse error
\* is looked at; parsed is what ap_expr_parse_cmd made of the argument
set_crowdsec_location(c, parsed) ==
    IF parsed = NULL
    THEN [err |-> "crowdsec: cannot parse expression",
          conf |-> [c EXCEPT !.location = NULL]]
    ELSE [err |-> NULL,
          conf |-> [c EXCEPT !.location = parsed, !.location_set = TRUE]]

\* set_crowdsec_url
set_crowdsec_url(sc, url) ==
    LET u == find_base_lapi_url(url)
    IN  IF u.err # NULL
        THEN [err |-> u.err, sconf |-> sc]
        ELSE [err |-> NULL,
              sconf |-> [sc EXCEPT !.url = u.url, !.url_set = TRUE]]

\* set_crowdsec_api_key
set_crowdsec_api_key(sc, key) ==
    [err |-> NULL, sconf |-> [sc EXCEPT !.key = key, !.key_set = TRUE]]

\* the cache instances the provider's create can hand back: one for a
\* CrowdsecCache of the main server, one for a CrowdsecCache of the
\* virtual host
SOCACHE_MAIN == "instance"
SOCACHE_VHOST == "instance_vhost"
Instances == {SOCACHE_MAIN, SOCACHE_VHOST}

\* set_crowdsec_cache: ap_lookup_provider knows "shmcb"; instance is what
\* the provider's create hands back
set_crowdsec_cache(sc, cache, instance) ==
    IF cache # "shmcb"
    THEN [err |-> "CrowdsecCache: Unknown socache provider",
          sconf |-> [sc EXCEPT !.cache_provider = NULL]]
    ELSE [err |-> NULL,
          sconf |-> [sc EXCEPT !.cache_provider = cache,
                               !.cache_instance = instance,
                               !.cache_provider_set = TRUE]]

\* set_crowdsec_cache_timeout (seconds)
set_crowdsec_cache_timeout(sc, timeout) ==
    [err |-> NULL,
     sconf |-> [sc EXCEPT !.cache_timeout = atoi(timeout),
                          !.cache_timeout_set = TRUE]]

-----------------------------------------------------------------------------
(* The shared object cache provider (an ap_socache provider): a store of   *)
(* entries with an absolute expiry, as the module calls it.                *)

NoEntry == [val |-> NULL, expiry |-> 0]

\* mutant: an entry is handed back however old it is
socache_retrieve_ignores_expiry(c, key, buflen, t, fail) ==
    IF fail THEN [status |-> APR_EGENERAL, val |-> NULL]
    ELSE IF c[key].val = NULL
    THEN [status |-> APR_NOTFOUND, val |-> NULL]
    ELSE IF strlen(c[key].val) > buflen
    THEN [status |-> APR_ENOSPC, val |-> NULL]
    ELSE [status |-> APR_SUCCESS, val |-> c[key].val]

\* provider->retrieve into a buffer of buflen bytes at time t; fail is the
\* provider failing for a reason of its own
socache_retrieve(c, key, buflen, t, fail) ==
    IF fail THEN [status |-> APR_EGENERAL, val |-> NULL]
    ELSE IF c[key].val = NULL \/ c[key].expiry <= t
    THEN [status |-> APR_NOTFOUND, val |-> NULL]
    ELSE IF strlen(c[key].val) > buflen
    THEN [status |-> APR_ENOSPC, val |-> NULL]
    ELSE [status |-> APR_SUCCESS, val |-> c[key].val]

\* provider->store
socache_store(c, key, expiry, val, fail) ==
    IF fail THEN [status |-> APR_EGENERAL, cache |-> c]
    ELSE [status |-> APR_SUCCESS,
          cache |-> [c EXCEPT ![key] = [val |-> val, expiry |-> expiry]]]

\* mutant: the mutex is taken whoever holds it
mutex_trylock_ignores_busy(holder, w, fail) ==
    IF fail THEN [status |-> APR_EGENERAL, holder |-> holder]
    ELSE [status |-> APR_SUCCESS, holder |-> w]

\* apr_global_mutex_trylock by worker w; holder is 0 when the mutex is free
mutex_trylock(holder, w, fail) ==
    IF holder # 0 THEN [status |-> APR_EBUSY, holder |-> holder]
    ELSE IF fail THEN [status |-> APR_EGENERAL, holder |-> holder]
    ELSE [status |-> APR_SUCCESS, holder |-> w]

-----------------------------------------------------------------------------
(* The request path, function by function.                                 *)

\* null_in_filter: an EOS bucket is appended to the brigade and nothing is
\* read from the filters below, whatever mode and readbytes ask for
null_in_filter(bb) ==
    [status |-> APR_SUCCESS, bb |-> Append(bb, "EOS"), consumed |-> 0]

\* mutant: the brigade goes on to the next filter once it was flattened
crowdsec_out_filter_passes_on(body) ==
    [status |-> OK, response |-> body, bb |-> <<>>, passed |-> body]

\* crowdsec_out_filter: the brigade is flattened into the response field;
\* it is cleaned up and not passed on
crowdsec_out_filter(body) ==
    [status |-> OK, response |-> body, bb |-> <<>>, passed |-> NULL]

\* mutant: the lookup runs although no provider is configured
crowdsec_from_cache_no_provider_check(sc, c, ip, t, fail) ==
    LET rv == socache_retrieve(c, crowdsec_cache_key(ip),
                               MAX_VAL_LEN - 1, t, fail)
    IN  IF rv.status = APR_SUCCESS
        THEN [response |-> rv.val, status |-> rv.status, reads |-> 1]
        ELSE [response |-> NULL, status |-> rv.status, reads |-> 1]

\* crowdsec_from_cache
crowdsec_from_cache(sc, c, ip, t, fail) ==
    IF sc.cache_provider = NULL
    THEN [response |-> NULL, status |-> "none", reads |-> 0]
    ELSE LET rv == socache_retrieve(c, crowdsec_cache_key(ip),
                                    MAX_VAL_LEN - 1, t, fail)
         IN  IF rv.status = APR_NOTFOUND
             THEN [response |-> NULL, status |-> rv.status, reads |-> 1]
             ELSE IF rv.status = APR_SUCCESS
             THEN [response |-> rv.val, status |-> rv.status, reads |-> 1]
             ELSE [response |-> NULL, status |-> rv.status, reads |-> 1]

\* mutant: only the status the call returns is compared with 404
crowdsec_proxy_result_call_404_only(fallback, status, rrstatus, recorded) ==
    IF status = HTTP_NOT_FOUND
    THEN [ret |-> HTTP_INTERNAL_SERVER_ERROR, response |-> NULL,
          notes |-> FALSE, source |-> "notfound"]
    ELSE IF status # OK
    THEN CASE fallback = CROWDSEC_FAIL ->
                [ret |-> HTTP_INTERNAL_SERVER_ERROR, response |-> NULL,
                 notes |-> TRUE, source |-> "fail"]
           [] fallback = CROWDSEC_BLOCK ->
                [ret |-> OK, response |-> BODY_ERROR,
                 notes |-> FALSE, source |-> "fallback"]
           [] fallback = CROWDSEC_ALLOW ->
                [ret |-> OK, response |-> BODY_NULL,
                 notes |-> FALSE, source |-> "fallback"]
    ELSE IF recorded = NULL
    THEN [ret |-> HTTP_INTERNAL_SERVER_ERROR, response |-> NULL,
          notes |-> FALSE, source |-> "notrecorded"]
    ELSE [ret |-> OK, response |-> recorded,
          notes |-> FALSE, source |-> "upstream"]

\* mutant: the 404 rule leaves the error note as well
crowdsec_proxy_result_notes_on_404(fallback, status, rrstatus, recorded) ==
    IF status = HTTP_NOT_FOUND \/ (status = OK /\ rrstatus = HTTP_NOT_FOUND)
    THEN [ret |-> HTTP_INTERNAL_SERVER_ERROR, response |-> NULL,
          notes |-> TRUE, source |-> "notfound"]
    ELSE IF status # OK
    THEN CASE fallback = CROWDSEC_FAIL ->
                [ret |-> HTTP_INTERNAL_SERVER_ERROR, response |-> NULL,
                 notes |-> TRUE, source |-> "fail"]
           [] fallback = CROWDSEC_BLOCK ->
                [ret |-> OK, response |-> BODY_ERROR,
                 notes |-> FALSE, source |-> "fallback"]
           [] fallback = CROWDSEC_ALLOW ->
                [ret |-> OK, response |-> BODY_NULL,
                 notes |-> FALSE, source |-> "fallback"]
    ELSE IF recorded = NULL
    THEN [ret |-> HTTP_INTERNAL_SERVER_ERROR, response |-> NULL,
          notes |-> FALSE, source |-> "notrecorded"]
    ELSE [ret |-> OK, response |-> recorded,
          notes |-> FALSE, source |-> "upstream"]

\* crowdsec_proxy after ap_run_sub_req returned status with response status
\* rrstatus; recorded is rrconf->response
crowdsec_proxy_result(fallback, status, rrstatus, recorded) ==
    IF status = HTTP_NOT_FOUND \/ (status = OK /\ rrstatus = HTTP_NOT_FOUND)
    THEN [ret |-> HTTP_INTERNAL_SERVER_ERROR, response |-> NULL,
          notes |-> FALSE, source |-> "notfound"]
    ELSE IF status # OK
    THEN CASE fallback = CROWDSEC_FAIL ->
                [ret |-> HTTP_INTERNAL_SERVER_ERROR, response |-> NULL,
                 notes |-> TRUE, source |-> "fail"]
           [] fallback = CROWDSEC_BLOCK ->
                [ret |-> OK, response |-> BODY_ERROR,
                 notes |-> FALSE, source |-> "fallback"]
           [] fallback = CROWDSEC_ALLOW ->
                [ret |-> OK, response |-> BODY_NULL,
                 notes |-> FALSE, source |-> "fallback"]
    ELSE IF recorded = NULL
    THEN [ret |-> HTTP_INTERNAL_SERVER_ERROR, response |-> NULL,
          notes |-> FALSE, source |-> "notrecorded"]
    ELSE [ret |-> OK, response |-> recorded,
          notes |-> FALSE, source |-> "upstream"]

\* the location ap_expr_str_exec computes when it succeeds
LOCATION_URL == "https://somewhere.example.com/blocked.html"

\* crowdsec_query from "parse response of crowdsec request here" on;
\* exprerr is ap_expr_str_exec failing
crowdsec_query_parse(c, response, exprerr) ==
    IF response = BODY_NULL
    THEN [ret |-> OK, location |-> NULL, expr |-> "none"]
    ELSE IF c.location # NULL
    THEN IF exprerr
         THEN [ret |-> HTTP_INTERNAL_SERVER_ERROR, location |-> NULL,
               expr |-> "err"]
         ELSE [ret |-> c.blockedhttpcode, location |-> LOCATION_URL,
               expr |-> "ok"]
    ELSE [ret |-> c.blockedhttpcode, location |-> NULL, expr |-> "none"]

\* mutant: sub-requests are not let through
check_access_declines_enable_only(main, c) == ~c.enable

\* crowdsec_check_access: the guard before crowdsec_query
check_access_declines(main, c) == main \/ ~c.enable

\* mutant: a server without an API URL is queried all the same
query_declines_main_only(main, sc) == main

\* crowdsec_query: the guard before the cache lookup
query_declines(main, sc) == main \/ sc.url = NULLP

\* crowdsec_check_access: what it returns for crowdsec_query's status
check_access_return(status) == IF status = OK THEN DECLINED ELSE status

-----------------------------------------------------------------------------
(* State.                                                                  *)

VARIABLES
    phase,      \* "config", "serving", "rejected" (a directive failed) or
                \* "failed" (crowdsec_post_config returned 500)
    dconf,      \* the route records being configured: the enclosing scope
                \* ("base") and the narrower one ("add")
    conf,       \* the effective route record the host keeps for the route
    sconf,      \* crowdsec_server_rec of the main server
    vhost,      \* crowdsec_server_rec of the virtual host
    socache,    \* history: the init and destroy calls each cache instance
                \* has had
    cleanups,   \* the servers cleanup_cache is registered for
    lastUrl,    \* history: the argument of the last CrowdsecURL and the
                \* error message it was answered with
    cache,      \* the provider's entries, by key
    mutex,      \* holder of each server's cache mutex, 0 when free
    now,        \* apr_time_now(), in seconds
    pc,         \* where each worker is in crowdsec_check_access
    r,          \* the request_rec a worker is serving
    own,        \* response field of a request's own (per-request merged)
                \* route record
    response,   \* crowdsec_query's local variable response
    verdict,    \* what crowdsec_check_access handed to the host
    hist,       \* history of the worker's current or last request
    lastFetch   \* history: the last classification the upstream gave

vars == <<phase, dconf, conf, sconf, vhost, socache, cleanups, lastUrl, cache,
          mutex, now, pc, r, own, response, verdict, hist, lastFetch>>

Workers == {1, 2}
Sections == {"base", "add"}
\* the server_rec list crowdsec_post_config walks
Servers == {"main", "vhost"}

\* what ap_sub_req_method_uri leaves in rr->status
SubReqStatuses == {HTTP_OK, HTTP_UNAUTHORIZED, HTTP_FORBIDDEN}
\* what ap_run_sub_req returns, and rr->status after it
\* (the status, rr->status after the call):
\* the service answers 200, 404 or 503 through the proxy handler, the
\* handler itself answers 404 (no proxy module) or 502 (no connection)
RunOutcomes == {<<OK, HTTP_OK>>, <<OK, HTTP_NOT_FOUND>>,
                <<OK, HTTP_SERVICE_UNAVAILABLE>>,
                <<HTTP_NOT_FOUND, HTTP_NOT_FOUND>>,
                <<HTTP_BAD_GATEWAY, HTTP_BAD_GATEWAY>>}

NoRequest ==
    [useragent_ip |-> IP_LOOPBACK, main |-> FALSE, shared |-> TRUE,
     server |-> "main"]
NoVerdict == [ret |-> DECLINED, location |-> NULL, notes |-> FALSE]
NoHist ==
    [served |-> FALSE, reads |-> 0, upstream |-> 0, trylocks |-> 0,
     stores |-> 0, unlocks |-> 0, cachest |-> "none", lockst |-> "none",
     storest |-> "none", subreq |-> 0, status |-> OK, rrstatus |-> 0,
     recorded |-> NULL, filtered |-> FALSE, source |-> "none",
     class |-> NULL, expr |-> "none", recursed |-> FALSE,
     refetch |-> "no", getkey |-> <<>>, putkey |-> <<>>,
     input |-> <<>>, mainread |-> 0, mainout |-> NULL, captured |-> NULL]
NoFetch == [ip |-> <<>>, until |-> 0, stored |-> FALSE]
NoCalls == [inits |-> 0, destroys |-> 0]
NoUrl == [arg |-> <<>>, err |-> NULL]

Init ==
    /\ phase = "config"
    /\ dconf = [s \in Sections |-> create_crowdsec_dir_config]
    /\ conf = create_crowdsec_dir_config
    /\ sconf = create_crowdsec_server_config
    /\ vhost = create_crowdsec_server_config
    /\ socache = [i \in Instances |-> NoCalls]
    /\ cleanups = {}
    /\ lastUrl = NoUrl
    /\ cache = [k \in CacheKeys |-> NoEntry]
    /\ mutex = [s \in Servers |-> 0]
    /\ now = 0
    /\ pc = [w \in Workers |-> "idle"]
    /\ r = [w \in Workers |-> NoRequest]
    /\ own = [w \in Workers |-> NULL]
    /\ response = [w \in Workers |-> NULL]
    /\ verdict = [w \in Workers |-> NoVerdict]
    /\ hist = [w \in Workers |-> NoHist]
    /\ lastFetch = NoFetch

serverVars == <<cache, mutex, now, pc, r, own, response, verdict, hist,
                lastFetch>>

-----------------------------------------------------------------------------
(* Configuration: one action per directive.  A directive that returns an   *)
(* error message makes the host refuse the configuration.                  *)

DirDirective(sec, res) ==
    /\ phase = "config"
    /\ dconf' = [dconf EXCEPT ![sec] = res.conf]
    /\ phase' = IF res.err = NULL THEN "config" ELSE "rejected"
    /\ UNCHANGED <<conf, sconf, vhost, socache, cleanups, lastUrl,
                   serverVars>>

ServerDirectiveOf(res) ==
    /\ phase = "config"
    /\ sconf' = res.sconf
    /\ phase' = IF res.err = NULL THEN "config" ELSE "rejected"
    /\ UNCHANGED <<conf, dconf, vhost, socache, cleanups, serverVars>>

ServerDirective(res) ==
    /\ ServerDirectiveOf(res)
    /\ UNCHANGED lastUrl

Crowdsec(sec, flag) == DirDirective(sec, set_crowdsec(dconf[sec], flag))

CrowdsecFallback(sec, arg) ==
    DirDirective(sec, set_crowdsec_fallback(dconf[sec], arg))

CrowdsecBlockedHTTPCode(sec, arg) ==
    DirDirective(sec, set_crowdsec_blockedhttpcode(dconf[sec], arg))

CrowdsecLocation(sec, parsed) ==
    DirDirective(sec, set_crowdsec_location(dconf[sec], parsed))

CrowdsecURL(arg) ==
    /\ ServerDirectiveOf(set_crowdsec_url(sconf, arg))
    /\ lastUrl' = [arg |-> arg, err |-> set_crowdsec_url(sconf, arg).err]

CrowdsecCache(arg) ==
    ServerDirective(set_crowdsec_cache(sconf, arg, SOCACHE_MAIN))

CrowdsecCacheTimeout(arg) ==
    ServerDirective(set_crowdsec_cache_timeout(sconf, arg))

\* one turn of the loop of crowdsec_post_config, for server s: the mutex
\* and the cache come to life when the record says a provider was set;
\* fail names the step that fails, if any
\* inits is the instances the provider's init was called on, cleanups the
\* servers cleanup_cache was registered for
post_config_server(sc, s, fail) ==
    IF ~sc.cache_provider_set
    THEN [ret |-> OK, sconf |-> sc, inits |-> <<>>, cleanups |-> {}]
    ELSE IF fail = "mutex"
    THEN [ret |-> HTTP_INTERNAL_SERVER_ERROR, sconf |-> sc,
          inits |-> <<>>, cleanups |-> {}]
    ELSE IF fail = "init"
    THEN [ret |-> HTTP_INTERNAL_SERVER_ERROR,
          sconf |-> [sc EXCEPT !.cache_mutex = s],
          inits |-> <<sc.cache_instance>>, cleanups |-> {}]
    ELSE [ret |-> OK, sconf |-> [sc EXCEPT !.cache_mutex = s],
          inits |-> <<sc.cache_instance>>, cleanups |-> {s}]

\* crowdsec_post_config: the main server, then the virtual host
crowdsec_post_config(sc, vh, fail) ==
    LET a == post_config_server(sc, "main", fail)
        b == post_config_server(vh, "vhost", fail)
    IN  IF a.ret # OK
        THEN [ret |-> a.ret, sconf |-> a.sconf, vhost |-> vh,
              inits |-> a.inits, cleanups |-> a.cleanups]
        ELSE [ret |-> b.ret, sconf |-> a.sconf, vhost |-> b.sconf,
              inits |-> a.inits \o b.inits,
              cleanups |-> a.cleanups \cup b.cleanups]

\* how many times instance i occurs in the sequence of calls
Calls(i, calls) == Cardinality({n \in 1..Len(calls) : calls[n] = i})

\* start-up: the host merges the two scopes' route records into the
\* route's effective record and the main server's record into the virtual
\* host's, and runs post_config; the section records are not read again
Startup(fail) ==
    /\ phase = "config"
    /\ LET pcfg == crowdsec_post_config(
                       sconf, merge_crowdsec_server_config(sconf, vhost),
                       fail)
       IN  /\ sconf' = pcfg.sconf
           /\ vhost' = pcfg.vhost
           /\ socache' = [i \in Instances |->
                             [socache[i] EXCEPT
                                 !.inits = @ + Calls(i, pcfg.inits)]]
           /\ cleanups' = pcfg.cleanups
           /\ phase' = IF pcfg.ret = OK THEN "serving" ELSE "failed"
    /\ conf' = merge_crowdsec_dir_config(dconf["base"], dconf["add"])
    /\ dconf' = [s \in Sections |-> create_crowdsec_dir_config]
    /\ UNCHANGED <<lastUrl, serverVars>>

\* cleanup_cache for a server record: the instance is destroyed when the
\* record still has one
cleanup_cache(sc) ==
    IF sc.cache_instance # NULL
    THEN [destroys |-> <<sc.cache_instance>>,
          sconf |-> [sc EXCEPT !.cache_instance = NULL]]
    ELSE [destroys |-> <<>>, sconf |-> sc]

\* cleanup_lock for a server record
cleanup_lock(sc) ==
    IF sc.cache_mutex # NULL THEN [sc EXCEPT !.cache_mutex = NULL] ELSE sc

\* the configuration pool is destroyed, at shutdown or after a failed
\* start-up: the registered cleanups run, the virtual host's before the
\* main server's
Shutdown ==
    /\ phase \in {"serving", "failed"}
    /\ \A w \in Workers : pc[w] = "idle"
    /\ LET v == IF "vhost" \in cleanups THEN cleanup_cache(vhost)
                ELSE [destroys |-> <<>>, sconf |-> vhost]
           m == IF "main" \in cleanups THEN cleanup_cache(sconf)
                ELSE [destroys |-> <<>>, sconf |-> sconf]
       IN  /\ vhost' = cleanup_lock(v.sconf)
           /\ sconf' = cleanup_lock(m.sconf)
           /\ socache' = [i \in Instances |->
                             [socache[i] EXCEPT
                                 !.destroys = @ + Calls(i, v.destroys
                                                           \o m.destroys)]]
    /\ cleanups' = {}
    /\ phase' = "stopped"
    /\ UNCHANGED <<conf, dconf, lastUrl, serverVars>>

-----------------------------------------------------------------------------
(* Serving.  A worker takes a request through crowdsec_check_access; the   *)
(* steps are cut where the worker touches state it shares with the others  *)
(* or waits for the upstream call.                                         *)

configVars == <<phase, dconf, sconf, vhost, socache, cleanups, lastUrl>>

\* the crowdsec_server_rec of the server of worker w's request
ServerConf(w) == IF r[w].server = "vhost" THEN vhost ELSE sconf

\* no other worker is handing a verdict to the host: that step reads and
\* writes the worker's own request only, so it is taken before any step
\* of another worker
NoVerdictPending(w) == \A v \in Workers \ {w} : pc[v] # "done"

\* crowdsec_check_access returns ret to the host and the request is over
Return(w, ret, location, notes, h) ==
    /\ pc' = [pc EXCEPT ![w] = "done"]
    /\ verdict' = [verdict EXCEPT ![w] =
                      [ret |-> check_access_return(ret),
                       location |-> location, notes |-> notes]]
    /\ hist' = [hist EXCEPT ![w] = [h EXCEPT !.served = TRUE]]

\* crowdsec_query, were it to fail the request when the mutex or the store
\* failed
Parse_fails_on_cache_error(w, resp, exprerr, h) ==
    LET q == crowdsec_query_parse(conf, resp, exprerr)
    IN  IF h.lockst \in {APR_EBUSY, APR_EGENERAL} \/ h.storest = APR_EGENERAL
        THEN Return(w, HTTP_INTERNAL_SERVER_ERROR, NULL, FALSE,
                    [h EXCEPT !.class = resp])
        ELSE Return(w, q.ret, q.location, FALSE,
                    [h EXCEPT !.expr = q.expr, !.class = resp])

\* the rest of crowdsec_query once it has a response
Parse(w, resp, exprerr, h) ==
    LET q == crowdsec_query_parse(conf, resp, exprerr)
    IN  Return(w, q.ret, q.location, FALSE,
               [h EXCEPT !.expr = q.expr, !.class = resp])

\* history: whether the upstream already classified ip less than
\* cache_timeout ago, and whether that classification was stored
Refetch(ip) ==
    IF lastFetch.ip = ip /\ now < lastFetch.until
    THEN IF lastFetch.stored THEN "stored" ELSE "unstored"
    ELSE "no"

\* crowdsec_check_access up to the point where the upstream call is under
\* way: the guards, crowdsec_from_cache and, on a miss, the creation of the
\* sub-request in crowdsec_proxy
Request(w, server, ip, main, shared, cfail, substatus, exprerr) ==
    /\ phase = "serving"
    /\ pc[w] = "idle"
    /\ NoVerdictPending(w)
    /\ r' = [r EXCEPT ![w] =
                [useragent_ip |-> ip, main |-> main, shared |-> shared,
                 server |-> server]]
    /\ own' = [own EXCEPT ![w] = NULL]
    /\ response' = [response EXCEPT ![w] = NULL]
    /\ UNCHANGED <<configVars, conf, cache, mutex, now, lastFetch>>
    /\ IF check_access_declines(main, conf)
       THEN Return(w, OK, NULL, FALSE, NoHist)
       ELSE IF query_declines(main, ServerConf(w)')
       THEN Return(w, DECLINED, NULL, FALSE, NoHist)
       ELSE LET fc == crowdsec_from_cache(ServerConf(w)', cache, ip, now,
                                          cfail)
                h1 == [NoHist EXCEPT
                          !.reads = fc.reads,
                          !.cachest = fc.status,
                          !.getkey = IF fc.reads = 1
                                     THEN crowdsec_cache_key(ip) ELSE <<>>]
            IN  IF fc.response # NULL
                THEN Parse(w, fc.response, exprerr,
                           [h1 EXCEPT !.source = "cache"])
                ELSE LET h2 == [h1 EXCEPT
                                   !.subreq = substatus,
                                   !.recursed =
                                       ~check_access_declines(TRUE, conf)]
                     IN  IF substatus # HTTP_OK
                         THEN Return(w, substatus, NULL, FALSE, h2)
                         ELSE /\ pc' = [pc EXCEPT ![w] = "running"]
                              /\ hist' = [hist EXCEPT ![w] =
                                             [h2 EXCEPT
                                                 !.upstream = 1,
                                                 !.refetch = Refetch(ip)]]
                              /\ UNCHANGED verdict

\* crowdsec_out_filter: the body of the brigade becomes the response field
\* of the route record of the sub-request
OutFilter(w, body) ==
    /\ phase = "serving"
    /\ pc[w] = "running"
    /\ NoVerdictPending(w)
    /\ LET f == crowdsec_out_filter(body)
       IN  /\ IF r[w].shared
              THEN /\ conf' = [conf EXCEPT !.response = f.response]
                   /\ UNCHANGED own
              ELSE /\ own' = [own EXCEPT ![w] = f.response]
                   /\ UNCHANGED conf
           /\ hist' = [hist EXCEPT ![w].filtered = TRUE,
                                   ![w].mainout = f.passed,
                                   ![w].captured = f.response]
    /\ UNCHANGED <<configVars, cache, mutex, now, pc, r, response, verdict,
                   lastFetch>>

\* mutant: a call that failed is made once more before its outcome is
\* handed on
RunReturn_retries(w, status, rrstatus, lfail, exprerr) ==
    \/ /\ phase = "serving"
       /\ pc[w] = "running"
       /\ NoVerdictPending(w)
       /\ status # OK
       /\ hist[w].upstream < 2
       /\ hist' = [hist EXCEPT ![w].upstream = @ + 1]
       /\ UNCHANGED <<configVars, conf, cache, mutex, now, pc, r, own,
                      response, verdict, lastFetch>>
    \/ /\ status = OK \/ hist[w].upstream >= 2
       /\ phase = "serving"
       /\ pc[w] = "running"
       /\ NoVerdictPending(w)
       /\ LET recorded == IF r[w].shared THEN conf.response ELSE own[w]
              pr == crowdsec_proxy_result(conf.fallback, status, rrstatus,
                                          recorded)
              in == null_in_filter(<<>>)
              h1 == [hist[w] EXCEPT !.status = status, !.rrstatus = rrstatus,
                                    !.recorded = recorded,
                                    !.source = pr.source,
                                    !.input = in.bb,
                                    !.mainread = in.consumed]
              tl == mutex_trylock(mutex[ServerConf(w).cache_mutex], w, lfail)
              h2 == [h1 EXCEPT !.trylocks = 1, !.lockst = tl.status]
          IN  /\ lastFetch' =
                    IF pr.source = "upstream" /\ rrstatus = HTTP_OK
                       /\ hist[w].filtered
                    THEN [ip |-> r[w].useragent_ip,
                          until |-> now + ServerConf(w).cache_timeout,
                          stored |-> FALSE]
                    ELSE lastFetch
              /\ IF pr.ret # OK
                 THEN /\ Return(w, pr.ret, NULL, pr.notes, h1)
                      /\ UNCHANGED <<mutex, response>>
                 ELSE IF ServerConf(w).cache_mutex = NULL
                 THEN /\ Parse(w, pr.response, exprerr, h1)
                      /\ UNCHANGED <<mutex, response>>
                 ELSE IF tl.status # APR_SUCCESS
                 THEN /\ Parse(w, pr.response, exprerr, h2)
                      /\ UNCHANGED <<mutex, response>>
                 ELSE /\ mutex' = [mutex EXCEPT
                                      ![ServerConf(w).cache_mutex] = tl.holder]
                      /\ response' = [response EXCEPT ![w] = pr.response]
                      /\ pc' = [pc EXCEPT ![w] = "store"]
                      /\ hist' = [hist EXCEPT ![w] = h2]
                      /\ UNCHANGED verdict
       /\ UNCHANGED <<configVars, conf, cache, now, r, own>>

\* ap_run_sub_req returns: the handler has read the sub-request's input
\* through null_in_filter; then the rest of crowdsec_proxy and, when it
\* returns OK, crowdsec_to_cache up to the trylock
RunReturn(w, status, rrstatus, lfail, exprerr) ==
    /\ phase = "serving"
    /\ pc[w] = "running"
    /\ NoVerdictPending(w)
    /\ LET recorded == IF r[w].shared THEN conf.response ELSE own[w]
           pr == crowdsec_proxy_result(conf.fallback, status, rrstatus,
                                       recorded)
           in == null_in_filter(<<>>)
           h1 == [hist[w] EXCEPT !.status = status, !.rrstatus = rrstatus,
                                 !.recorded = recorded,
                                 !.source = pr.source,
                                 !.input = in.bb,
                                 !.mainread = in.consumed]
           tl == mutex_trylock(mutex[ServerConf(w).cache_mutex], w, lfail)
           h2 == [h1 EXCEPT !.trylocks = 1, !.lockst = tl.status]
       IN  /\ lastFetch' =
                 IF pr.source = "upstream" /\ rrstatus = HTTP_OK
                    /\ hist[w].filtered
                 THEN [ip |-> r[w].useragent_ip,
                       until |-> now + ServerConf(w).cache_timeout,
                       stored |-> FALSE]
                 ELSE lastFetch
           /\ IF pr.ret # OK
              THEN /\ Return(w, pr.ret, NULL, pr.notes, h1)
                   /\ UNCHANGED <<mutex, response>>
              ELSE IF ServerConf(w).cache_mutex = NULL
              THEN /\ Parse(w, pr.response, exprerr, h1)
                   /\ UNCHANGED <<mutex, response>>
              ELSE IF tl.status # APR_SUCCESS
              THEN /\ Parse(w, pr.response, exprerr, h2)
                   /\ UNCHANGED <<mutex, response>>
              ELSE /\ mutex' = [mutex EXCEPT
                                   ![ServerConf(w).cache_mutex] = tl.holder]
                   /\ response' = [response EXCEPT ![w] = pr.response]
                   /\ pc' = [pc EXCEPT ![w] = "store"]
                   /\ hist' = [hist EXCEPT ![w] = h2]
                   /\ UNCHANGED verdict
    /\ UNCHANGED <<configVars, conf, cache, now, r, own>>

\* mutant: a failing store returns before the unlock
Store_returns_on_failure(w, sfail, exprerr) ==
    /\ phase = "serving"
    /\ pc[w] = "store"
    /\ NoVerdictPending(w)
    /\ LET st == socache_store(cache,
                               crowdsec_cache_key(r[w].useragent_ip),
                               now + ServerConf(w).cache_timeout,
                               response[w], sfail)
           h == [hist[w] EXCEPT
                    !.stores = 1, !.storest = st.status,
                    !.unlocks = IF sfail THEN 0 ELSE 1,
                    !.putkey = crowdsec_cache_key(r[w].useragent_ip)]
       IN  /\ cache' = st.cache
           /\ mutex' = IF sfail THEN mutex
                       ELSE [mutex EXCEPT ![ServerConf(w).cache_mutex] = 0]
           /\ Parse(w, response[w], exprerr, h)
    /\ lastFetch' =
          IF /\ ~sfail
             /\ hist[w].source = "upstream"
             /\ hist[w].rrstatus = HTTP_OK
             /\ lastFetch.ip = r[w].useragent_ip
          THEN [lastFetch EXCEPT !.stored = TRUE]
          ELSE lastFetch
    /\ UNCHANGED <<configVars, conf, now, r, own, response>>

\* mutant: crowdsec_to_cache returns after the store, the mutex still held
Store_without_unlock(w, sfail, exprerr) ==
    /\ phase = "serving"
    /\ pc[w] = "store"
    /\ NoVerdictPending(w)
    /\ LET st == socache_store(cache,
                               crowdsec_cache_key(r[w].useragent_ip),
                               now + ServerConf(w).cache_timeout,
                               response[w], sfail)
           h == [hist[w] EXCEPT
                    !.stores = 1, !.storest = st.status, !.unlocks = 0,
                    !.putkey = crowdsec_cache_key(r[w].useragent_ip)]
       IN  /\ cache' = st.cache
           /\ mutex' = mutex
           /\ Parse(w, response[w], exprerr, h)
    /\ lastFetch' =
          IF /\ ~sfail
             /\ hist[w].source = "upstream"
             /\ hist[w].rrstatus = HTTP_OK
             /\ lastFetch.ip = r[w].useragent_ip
          THEN [lastFetch EXCEPT !.stored = TRUE]
          ELSE lastFetch
    /\ UNCHANGED <<configVars, conf, now, r, own, response>>

\* crowdsec_to_cache with the mutex held: store, unlock, and then the rest
\* of crowdsec_query
Store(w, sfail, exprerr) ==
    /\ phase = "serving"
    /\ pc[w] = "store"
    /\ NoVerdictPending(w)
    /\ LET st == socache_store(cache,
                               crowdsec_cache_key(r[w].useragent_ip),
                               now + ServerConf(w).cache_timeout,
                               response[w], sfail)
           h == [hist[w] EXCEPT
                    !.stores = 1, !.storest = st.status, !.unlocks = 1,
                    !.putkey = crowdsec_cache_key(r[w].useragent_ip)]
       IN  /\ cache' = st.cache
           /\ mutex' = [mutex EXCEPT ![ServerConf(w).cache_mutex] = 0]
           /\ Parse(w, response[w], exprerr, h)
    /\ lastFetch' =
          IF /\ ~sfail
             /\ hist[w].source = "upstream"
             /\ hist[w].rrstatus = HTTP_OK
             /\ lastFetch.ip = r[w].useragent_ip
          THEN [lastFetch EXCEPT !.stored = TRUE]
          ELSE lastFetch
    /\ UNCHANGED <<configVars, conf, now, r, own, response>>

\* the host has the verdict; the worker is free for the next request
Finish(w) ==
    /\ phase = "serving"
    /\ pc[w] = "done"
    /\ pc' = [pc EXCEPT ![w] = "idle"]
    /\ r' = [r EXCEPT ![w] = NoRequest]
    /\ verdict' = [verdict EXCEPT ![w] = NoVerdict]
    /\ hist' = [hist EXCEPT ![w] = NoHist]
    /\ UNCHANGED <<configVars, conf, cache, mutex, now, own, response,
                   lastFetch>>

\* time passes (handing a verdict to the host takes none)
Tick ==
    /\ phase = "serving"
    /\ \A w \in Workers : pc[w] # "done"
    /\ now < MaxTime
    /\ now' = now + 1
    /\ UNCHANGED <<configVars, conf, cache, mutex, pc, r, own, response,
                   verdict, hist, lastFetch>>

-----------------------------------------------------------------------------
(* Specifications.                                                         *)

Configure(secs) ==
    \/ \E sec \in secs, flag \in BOOLEAN : Crowdsec(sec, flag)
    \/ \E sec \in secs, arg \in FallbackArgs : CrowdsecFallback(sec, arg)
    \/ \E sec \in secs, arg \in CodeArgs :
          CrowdsecBlockedHTTPCode(sec, arg)
    \/ \E sec \in secs, parsed \in {LOCATION_EXPR, NULL} :
          CrowdsecLocation(sec, parsed)
    \/ \E arg \in UrlArgs : CrowdsecURL(arg)
    \/ \E arg \in CacheArgs : CrowdsecCache(arg)
    \/ \E arg \in TimeoutArgs : CrowdsecCacheTimeout(arg)
    \/ \E fail \in {"none", "mutex", "init"} : Startup(fail)

\* the requests and the answers of the collaborators a specification lets
\* happen: P names the workers, the client addresses, the values each
\* nondeterministic outcome is drawn from, and whether the upstream's answer
\* comes to the out filter in one brigade or in many
Serve(P) ==
    \/ \E w \in P.workers, server \in P.servers, ip \in P.ips,
          main \in P.mains, shared \in P.shareds, cfail \in P.cfails,
          substatus \in P.substatuses, exprerr \in P.exprerrs :
          Request(w, server, ip, main, shared, cfail, substatus, exprerr)
    \/ \E w \in P.workers, body \in P.bodies :
          /\ P.brigades = "many" \/ ~hist[w].filtered
          /\ OutFilter(w, body)
    \/ \E w \in P.workers, out \in P.outcomes, lfail \in P.lfails,
          exprerr \in P.exprerrs :
          RunReturn(w, out[1], out[2], lfail, exprerr)
    \/ \E w \in P.workers, sfail \in P.sfails, exprerr \in P.exprerrs :
          Store(w, sfail, exprerr)
    \/ \E w \in P.workers : Finish(w)
    \/ Tick

\* one worker, one client, every outcome; each request has the route
\* record the host merged for it
Sequential ==
    [workers |-> {1}, servers |-> {"main"}, ips |-> {IP_LOOPBACK},
     mains |-> BOOLEAN,
     shareds |-> {FALSE}, cfails |-> BOOLEAN,
     substatuses |-> SubReqStatuses, exprerrs |-> BOOLEAN,
     bodies |-> UpstreamBodies, outcomes |-> RunOutcomes,
     lfails |-> BOOLEAN, sfails |-> BOOLEAN,
     brigades |-> "many"]

\* all workers at once on the route record the host made at start-up; the
\* upstream answers 200 or cannot be reached
Concurrent ==
    [workers |-> Workers, servers |-> {"main"}, ips |-> {IP_LOOPBACK},
     mains |-> {FALSE},
     shareds |-> {TRUE}, cfails |-> BOOLEAN,
     substatuses |-> {HTTP_OK}, exprerrs |-> {FALSE},
     bodies |-> {BODY_NULL, BODY_BAN},
     outcomes |-> {<<OK, HTTP_OK>>, <<HTTP_BAD_GATEWAY, HTTP_BAD_GATEWAY>>},
     lfails |-> BOOLEAN, sfails |-> BOOLEAN,
     brigades |-> "one"]

\* any configuration of one scope, then one request at a time
Next == Configure({"add"}) \/ Serve(Sequential)

Spec == Init /\ [][Next]_vars

\* a route record as directives leave it: Crowdsec on, CrowdsecFallback
\* and CrowdsecBlockedHTTPCode 403
RouteConfig(fallback) ==
    set_crowdsec_blockedhttpcode(
        set_crowdsec_fallback(
            set_crowdsec(create_crowdsec_dir_config, TRUE).conf,
            fallback).conf,
        <<"4", "0", "3">>).conf

\* the main server's record after CrowdsecURL, CrowdsecCache shmcb and
\* CrowdsecCacheTimeout 1
ConfiguredServerConfig ==
    set_crowdsec_cache_timeout(
        set_crowdsec_cache(
            set_crowdsec_url(create_crowdsec_server_config,
                             URL_GOOD).sconf,
            "shmcb", SOCACHE_MAIN).sconf,
        <<"1">>).sconf

\* the two servers' records once a virtual host without directives was
\* merged and crowdsec_post_config has run
StartedServers ==
    crowdsec_post_config(
        ConfiguredServerConfig,
        merge_crowdsec_server_config(ConfiguredServerConfig,
                                     create_crowdsec_server_config),
        "none")

CachedServerConfig == StartedServers.sconf

\* a started server with a cache and an enabled route
InitConc ==
    /\ phase = "serving"
    /\ dconf = [s \in Sections |-> create_crowdsec_dir_config]
    /\ \E fallback \in {"fail", "block", "allow"} :
          conf = merge_crowdsec_dir_config(create_crowdsec_dir_config,
                                           RouteConfig(fallback))
    /\ sconf = CachedServerConfig
    /\ vhost = StartedServers.vhost
    /\ socache = [i \in Instances |->
                     [NoCalls EXCEPT
                         !.inits = Calls(i, StartedServers.inits)]]
    /\ cleanups = StartedServers.cleanups
    /\ lastUrl = [arg |-> URL_GOOD, err |-> NULL]
    /\ cache = [k \in CacheKeys |-> NoEntry]
    /\ mutex = [s \in Servers |-> 0]
    /\ now = 0
    /\ pc = [w \in Workers |-> "idle"]
    /\ r = [w \in Workers |-> NoRequest]
    /\ own = [w \in Workers |-> NULL]
    /\ response = [w \in Workers |-> NULL]
    /\ verdict = [w \in Workers |-> NoVerdict]
    /\ hist = [w \in Workers |-> NoHist]
    /\ lastFetch = NoFetch

NextConc == Serve(Concurrent)

SpecConc == InitConc /\ [][NextConc]_vars

\* one worker, one request after the other, on the route record the host
\* made at start-up
OneWorker ==
    [workers |-> {1}, servers |-> {"main"}, ips |-> {IP_LOOPBACK},
     mains |-> {FALSE},
     shareds |-> {TRUE}, cfails |-> BOOLEAN,
     substatuses |-> SubReqStatuses, exprerrs |-> {FALSE},
     bodies |-> UpstreamBodies, outcomes |-> RunOutcomes,
     lfails |-> BOOLEAN, sfails |-> BOOLEAN,
     brigades |-> "many"]

NextOne == Serve(OneWorker)

SpecOne == InitConc /\ [][NextOne]_vars

\* one worker, clients of every address, the upstream and the cache in
\* good order
EveryAddress ==
    [workers |-> {1}, servers |-> {"main"}, ips |-> IPs,
     mains |-> {FALSE}, shareds |-> {FALSE}, cfails |-> {FALSE},
     substatuses |-> {HTTP_OK}, exprerrs |-> {FALSE},
     bodies |-> {BODY_NULL, BODY_BAN}, outcomes |-> {<<OK, HTTP_OK>>},
     lfails |-> {FALSE}, sfails |-> {FALSE},
     brigades |-> "many"]

NextKeys == Serve(EveryAddress)

SpecKeys == InitConc /\ [][NextKeys]_vars

\* all workers at once, on the main server and on the virtual host that
\* inherited its cache; the upstream and the cache in good order
TwoServers ==
    [workers |-> Workers, servers |-> Servers, ips |-> {IP_LOOPBACK},
     mains |-> {FALSE}, shareds |-> {FALSE}, cfails |-> {FALSE},
     substatuses |-> {HTTP_OK}, exprerrs |-> {FALSE},
     bodies |-> {BODY_NULL, BODY_BAN}, outcomes |-> {<<OK, HTTP_OK>>},
     lfails |-> {FALSE}, sfails |-> {FALSE},
     brigades |-> "many"]

NextVhost == Serve(TwoServers)

SpecVhost == InitConc /\ [][NextVhost]_vars

\* all workers at once on one server, each request with its own route
\* record; the upstream answers or cannot be reached, the store succeeds
\* or fails
Live ==
    [workers |-> Workers, servers |-> {"main"}, ips |-> {IP_LOOPBACK},
     mains |-> {FALSE}, shareds |-> {FALSE}, cfails |-> {FALSE},
     substatuses |-> {HTTP_OK}, exprerrs |-> {FALSE},
     bodies |-> {BODY_BAN},
     outcomes |-> {<<OK, HTTP_OK>>, <<HTTP_BAD_GATEWAY, HTTP_BAD_GATEWAY>>},
     lfails |-> {FALSE}, sfails |-> BOOLEAN,
     brigades |-> "one"]

NextLive == Serve(Live)

\* every upstream call returns, and a worker that can go on does: the host
\* runs each worker on a thread or process of its own
Fairness ==
    \A w \in Workers :
        /\ SF_vars(\E out \in Live.outcomes, lfail \in Live.lfails,
                      exprerr \in Live.exprerrs :
                      RunReturn(w, out[1], out[2], lfail, exprerr))
        /\ SF_vars(\E sfail \in Live.sfails, exprerr \in Live.exprerrs :
                      Store(w, sfail, exprerr))
        /\ WF_vars(Finish(w))

SpecLive == InitConc /\ [][NextLive]_vars /\ Fairness

\* the route records the directives of one section can leave behind
DirRecords ==
    LET c0 == {create_crowdsec_dir_config}
        c1 == c0 \cup {set_crowdsec(c, flag).conf :
                           c \in c0, flag \in BOOLEAN}
        c2 == c1 \cup {set_crowdsec_fallback(c, arg).conf :
                           c \in c1, arg \in FallbackArgs}
        c3 == c2 \cup {set_crowdsec_blockedhttpcode(c, arg).conf :
                           c \in c2, arg \in CodeArgs}
    IN  c3 \cup {set_crowdsec_location(c, LOCATION_EXPR).conf : c \in c3}

\* the server records the directives of one server scope can leave
\* behind; instance is the cache instance a CrowdsecCache there creates
ServerRecordsOf(instance) ==
    LET s0 == {create_crowdsec_server_config}
        s1 == s0 \cup {set_crowdsec_url(sc, URL_GOOD).sconf : sc \in s0}
        s2 == s1 \cup {set_crowdsec_api_key(sc, "key").sconf : sc \in s1}
        s3 == s2 \cup {set_crowdsec_cache(sc, "shmcb", instance).sconf :
                           sc \in s2}
    IN  s3 \cup {set_crowdsec_cache_timeout(sc, arg).sconf :
                    sc \in s3, arg \in TimeoutArgs}

ServerRecords == ServerRecordsOf(SOCACHE_MAIN)

\* a configuration that was read: any two sections of a route, or any two
\* server scopes
InitMerge ==
    /\ phase = "config"
    /\ \/ /\ dconf \in [Sections -> DirRecords]
          /\ sconf = create_crowdsec_server_config
          /\ vhost = create_crowdsec_server_config
       \/ /\ dconf = [s \in Sections |-> create_crowdsec_dir_config]
          /\ sconf \in ServerRecords
          /\ vhost \in ServerRecordsOf(SOCACHE_VHOST)
    /\ conf = create_crowdsec_dir_config
    /\ socache = [i \in Instances |-> NoCalls]
    /\ cleanups = {}
    /\ lastUrl = IF sconf.url_set THEN [arg |-> URL_GOOD, err |-> NULL]
                 ELSE NoUrl
    /\ cache = [k \in CacheKeys |-> NoEntry]
    /\ mutex = [s \in Servers |-> 0]
    /\ now = 0
    /\ pc = [w \in Workers |-> "idle"]
    /\ r = [w \in Workers |-> NoRequest]
    /\ own = [w \in Workers |-> NULL]
    /\ response = [w \in Workers |-> NULL]
    /\ verdict = [w \in Workers |-> NoVerdict]
    /\ hist = [w \in Workers |-> NoHist]
    /\ lastFetch = NoFetch

\* a configuration with one CrowdsecURL directive, given any string
NextUrl == \E url \in Urls : lastUrl = NoUrl /\ CrowdsecURL(url)

SpecUrl == Init /\ [][NextUrl]_vars

NextMerge ==
    \/ \E fail \in {"none", "mutex", "init"} : Startup(fail)
    \/ Shutdown

SpecMerge == InitMerge /\ [][NextMerge]_vars

-----------------------------------------------------------------------------
(* The verdicts of the decision engine, as the host sees them.             *)

Done(w) == pc[w] = "done"

Allow(v) == v.ret = DECLINED
Block(v, code) == v.ret = code /\ v.location = NULL
Redirect(v, code, location) == v.ret = code /\ v.location = location
Error500(v) == v.ret = HTTP_INTERNAL_SERVER_ERROR /\ v.location = NULL

\* a top-level request on an enabled route of a server with an API URL
Gated(w) == conf.enable /\ ~r[w].main /\ ServerConf(w).url # NULLP

\* the request's classification came from the cache or from an upstream
\* call that succeeded with status 200
Classified(w) ==
    /\ Done(w)
    /\ Gated(w)
    /\ hist[w].class # NULL
    /\ \/ hist[w].source = "cache"
       \/ hist[w].source = "upstream" /\ hist[w].rrstatus = HTTP_OK

Blocked(w) == Classified(w) /\ hist[w].class # BODY_NULL

\* the upstream call of the request ended with a 404
NotFound(w) ==
    /\ hist[w].upstream = 1
    /\ \/ hist[w].status = HTTP_NOT_FOUND
       \/ hist[w].status = OK /\ hist[w].rrstatus = HTTP_NOT_FOUND

\* the upstream call of the request failed, and not with a 404: the call
\* returned an error, or the service answered with a non-2xx status
UpstreamFailed(w) ==
    /\ Done(w)
    /\ hist[w].upstream = 1
    /\ ~NotFound(w)
    /\ \/ hist[w].status # OK
       \/ hist[w].rrstatus # HTTP_OK

-----------------------------------------------------------------------------
(* C1: on an enabled route with an API URL, once the classification is     *)
(* known the verdict is Allow exactly when it is "null", and without a     *)
(* redirect expression any other classification gives                      *)
(* Block{blockedStatusCode}, whatever the configuration.                   *)
C1_NullIffAllow ==
    \A w \in Workers :
        Classified(w) =>
            /\ Allow(verdict[w]) <=> hist[w].class = BODY_NULL
            /\ (hist[w].class # BODY_NULL /\ conf.location = NULL)
                   => Block(verdict[w], conf.blockedhttpcode)

(* C2: where no blocked status code was configured, a blocked request gets *)
(* Block{429}, or Redirect{429, location} with a redirect expression.      *)
C2_Default429 ==
    \A w \in Workers :
        (Blocked(w) /\ ~conf.blockedhttpcode_set /\ hist[w].expr # "err") =>
            IF conf.location = NULL
            THEN Block(verdict[w], HTTP_TOO_MANY_REQUESTS)
            ELSE Redirect(verdict[w], HTTP_TOO_MANY_REQUESTS, LOCATION_URL)

(* C3: an upstream failure other than 404 yields the fallback policy's     *)
(* outcome: FAIL Error{500}, BLOCK Block{blockedStatusCode} (Redirect with *)
(* a redirect expression), ALLOW Allow.                                    *)
C3_FallbackMapping ==
    \A w \in Workers :
        UpstreamFailed(w) =>
            CASE conf.fallback = CROWDSEC_FAIL -> Error500(verdict[w])
              [] conf.fallback = CROWDSEC_BLOCK ->
                    IF conf.location = NULL
                    THEN Block(verdict[w], conf.blockedhttpcode)
                    ELSE hist[w].expr = "ok" =>
                            Redirect(verdict[w], conf.blockedhttpcode,
                                     LOCATION_URL)
              [] conf.fallback = CROWDSEC_ALLOW -> Allow(verdict[w])

(* C4: a verdict of the BLOCK or ALLOW fallback never writes the cache.    *)
C4_FallbackNotCached ==
    \A w \in Workers :
        hist[w].source = "fallback" =>
            /\ pc[w] # "store"
            /\ hist[w].stores = 0

(* C5: a 404 from the endpoint yields Error{500} under each fallback       *)
(* policy, and the cache is not written.                                   *)
C5_NotFoundIs500 ==
    \A w \in Workers :
        NotFound(w) =>
            /\ Done(w)
            /\ Error500(verdict[w])
            /\ ~verdict[w].notes
            /\ hist[w].trylocks = 0
            /\ hist[w].stores = 0

C5_Witness ==
    \E w \in Workers :
        /\ NotFound(w)
        /\ hist[w].status = OK
        /\ hist[w].filtered
        /\ conf.fallback = CROWDSEC_ALLOW
        /\ sconf.cache_mutex # NULL

(* C6, in the case most favourable to it: once a request has obtained    *)
(* the classification from the upstream with status 200 and stored it,     *)
(* no later request for that address within the cache timeout whose cache  *)
(* read does not fail calls the upstream again, whatever the body.         *)
C6_NoRefetchWithinTTL ==
    \A w \in Workers :
        hist[w].refetch = "stored" => hist[w].cachest = APR_EGENERAL

(* C7: on a route that is not enabled, and for a sub-request, the verdict  *)
(* is Allow at once: no cache read, no mutex operation, no sub-request and *)
(* no upstream call; the gate's evaluation for the engine's own            *)
(* sub-request never goes past the guard.                                  *)
C7_DeclinesAtOnce ==
    \A w \in Workers :
        /\ (Done(w) /\ (~conf.enable \/ r[w].main)) =>
              /\ Allow(verdict[w])
              /\ hist[w].reads = 0
              /\ hist[w].trylocks = 0
              /\ hist[w].stores = 0
              /\ hist[w].subreq = 0
              /\ hist[w].upstream = 0
        /\ ~hist[w].recursed

C7_Witness ==
    \E w \in Workers :
        /\ Done(w)
        /\ r[w].main
        /\ conf.enable
        /\ sconf.url # NULLP
        /\ sconf.cache_provider # NULL
        /\ cache[crowdsec_cache_key(r[w].useragent_ip)] # NoEntry

(* C8: a blocked classification with a redirect expression gives           *)
(* Error{500} when the evaluation fails and Redirect{blockedStatusCode,    *)
(* location} when it succeeds; a "null" classification never evaluates it. *)
C8_RedirectOrError ==
    \A w \in Workers :
        /\ (Blocked(w) /\ conf.location # NULL) =>
              /\ hist[w].expr \in {"ok", "err"}
              /\ hist[w].expr = "err" => Error500(verdict[w])
              /\ hist[w].expr = "ok" =>
                    Redirect(verdict[w], conf.blockedhttpcode, LOCATION_URL)
        /\ (Classified(w) /\ hist[w].class = BODY_NULL) =>
              hist[w].expr = "none"

\* the verdict crowdsec_proxy and crowdsec_query give for the outcome of
\* the request's upstream call, the cache left aside
ExpectedVerdict(w) ==
    LET pr == crowdsec_proxy_result(conf.fallback, hist[w].status,
                                    hist[w].rrstatus, hist[w].recorded)
        q == crowdsec_query_parse(conf, pr.response, hist[w].expr = "err")
    IN  IF pr.ret # OK
        THEN [ret |-> check_access_return(pr.ret), location |-> NULL,
              notes |-> pr.notes]
        ELSE [ret |-> check_access_return(q.ret), location |-> q.location,
              notes |-> FALSE]

NoCacheUse(w) ==
    /\ hist[w].reads = 0
    /\ hist[w].cachest = "none"
    /\ hist[w].trylocks = 0
    /\ hist[w].stores = 0
    /\ hist[w].unlocks = 0

(* C9: a failing cache read, a failing store and a busy or failing mutex  *)
(* leave the verdict alone: the verdict of a request that called the       *)
(* upstream is the one its upstream outcome and route settings give,       *)
(* whatever the cache and the mutex answered.                              *)
C9_CacheFailuresKeepVerdict ==
    \A w \in Workers :
        (Done(w) /\ hist[w].upstream = 1) =>
            verdict[w] = ExpectedVerdict(w)

C9_Witness ==
    \E w1 \in Workers, w2 \in Workers :
        /\ Done(w1)
        /\ hist[w1].cachest = APR_EGENERAL
        /\ hist[w1].lockst = APR_EBUSY
        /\ hist[w1].class = BODY_BAN
        /\ Block(verdict[w1], HTTP_FORBIDDEN)
        /\ pc[w2] = "store"
        /\ mutex["main"] = w2

(* C10 as claimed: without a cache provider get reports absent and put     *)
(* does nothing, and every decide call on an enabled top-level request     *)
(* issues exactly one upstream query and gives the verdict of a cache      *)
(* miss.                                                                   *)
C10_NoCacheOneQuery ==
    \A w \in Workers :
        (Done(w) /\ sconf.cache_provider = NULL /\ conf.enable
         /\ ~r[w].main) =>
            /\ NoCacheUse(w)
            /\ hist[w].upstream = 1
            /\ verdict[w] = ExpectedVerdict(w)

(* C10 amended: without a cache provider no request reads the cache or     *)
(* touches the mutex; a decide call on an enabled top-level request of a   *)
(* server with an API URL, whose sub-request was created with status 200,  *)
(* issues exactly one upstream query and gives the verdict of a cache      *)
(* miss for the same upstream outcome.  Without an API URL, or when the    *)
(* sub-request cannot be created, no upstream query is issued.             *)
C10_NoCacheAmended ==
    \A w \in Workers :
        (Done(w) /\ sconf.cache_provider = NULL) =>
            /\ NoCacheUse(w)
            /\ sconf.cache_mutex = NULL
            /\ (Gated(w) /\ hist[w].subreq = HTTP_OK) =>
                  /\ hist[w].upstream = 1
                  /\ verdict[w] = ExpectedVerdict(w)
            /\ (~Gated(w) \/ hist[w].subreq # HTTP_OK) =>
                  hist[w].upstream = 0

C10_Witness ==
    \E w \in Workers :
        /\ Done(w)
        /\ sconf.cache_provider = NULL
        /\ Gated(w)
        /\ hist[w].upstream = 1
        /\ hist[w].source = "upstream"
        /\ hist[w].class = BODY_BAN
        /\ Block(verdict[w], HTTP_FORBIDDEN)

(* C11: the verdict handed to the host is always Allow, or status 500, or *)
(* a Block or Redirect with a status among 403, 429 and 500; no other     *)
(* status, and none taken over from the outbound sub-request, reaches the *)
(* host.                                                                   *)
C11_VerdictStatuses ==
    \A w \in Workers :
        Done(w) =>
            \/ Allow(verdict[w])
            \/ verdict[w].ret \in {HTTP_FORBIDDEN, HTTP_TOO_MANY_REQUESTS,
                                   HTTP_INTERNAL_SERVER_ERROR}

\* the upstream call of the request returned OK with status 200 and
\* crowdsec_out_filter did not run during it
NotRecorded(w) ==
    /\ hist[w].upstream = 1
    /\ pc[w] # "running"
    /\ hist[w].status = OK
    /\ hist[w].rrstatus = HTTP_OK
    /\ ~hist[w].filtered

(* C12: an upstream call that succeeds without the capture filter having   *)
(* run gives Error{500} and writes nothing to the cache, whatever requests *)
(* the route served before.                                                *)
C12_NotRecordedIs500 ==
    \A w \in Workers :
        NotRecorded(w) =>
            /\ Done(w)
            /\ Error500(verdict[w])
            /\ hist[w].trylocks = 0
            /\ hist[w].stores = 0

\* the settings of a route record and of a server record, each with the
\* flag that says it was set
DirFields ==
    {<<"enable", "enable_set">>, <<"fallback", "fallback_set">>,
     <<"location", "location_set">>,
     <<"blockedhttpcode", "blockedhttpcode_set">>}
ServerFields ==
    {<<"url", "url_set">>, <<"key", "key_set">>,
     <<"cache_provider", "cache_provider_set">>,
     <<"cache_instance", "cache_provider_set">>,
     <<"cache_timeout", "cache_timeout_set">>}

\* merged is base and add merged right-biased, field by field
RightBiased(merged, base, add, fields) ==
    \A f \in fields :
        /\ merged[f[1]] = IF add[f[2]] THEN add[f[1]] ELSE base[f[1]]
        /\ merged[f[2]] = (add[f[2]] \/ base[f[2]])

(* C13: the merge of two route records and of two server records takes    *)
(* every setting from the overriding record when that record's flag for   *)
(* the setting is set and from the base otherwise, setting by setting; the *)
(* merged flag is the disjunction of the two flags.                        *)
C13_MergeRightBiased ==
    [][(phase = "config" /\ phase' # "config") =>
          /\ RightBiased(conf', dconf["base"], dconf["add"], DirFields)
          /\ RightBiased(vhost', sconf, vhost, ServerFields)]_vars

C13_Witness ==
    \/ /\ phase = "serving"
       /\ conf.enable
       /\ conf.fallback = CROWDSEC_ALLOW
       /\ conf.blockedhttpcode = HTTP_FORBIDDEN
       /\ ~conf.location_set
    \/ /\ phase = "serving"
       /\ vhost.url # NULLP
       /\ vhost.key = "key"
       /\ ~vhost.cache_provider_set
       /\ vhost.cache_timeout_set

\* key is ip when ip has 4 characters or more, and else ip followed by
\* spaces up to 4 characters
PaddedTo4(key, ip) ==
    /\ Len(key) >= 4
    /\ Len(ip) >= 4 => key = ip
    /\ Len(ip) < 4 =>
          /\ Len(key) = 4
          /\ \A i \in 1..4 : key[i] = IF i <= Len(ip) THEN ip[i] ELSE " "

(* C14: the cache key derived from a client address has 4 characters or   *)
(* more: a shorter address is followed by spaces up to exactly 4, an       *)
(* address of 4 or more is the key as it is; the cache read and the cache  *)
(* write of one request use the same key.                                  *)
C14_KeyPadded ==
    \A w \in Workers :
        /\ hist[w].reads = 1 => PaddedTo4(hist[w].getkey, r[w].useragent_ip)
        /\ hist[w].stores = 1 =>
              /\ hist[w].putkey = hist[w].getkey
              /\ cache[hist[w].putkey].val # NULL
                    => PaddedTo4(hist[w].putkey, r[w].useragent_ip)

C14_Witness ==
    /\ cache[<<":", ":", "1", " ">>].val = BODY_BAN
    /\ cache[IP_V6].val = BODY_NULL
    /\ cache[IP_V4].val = BODY_BAN
    /\ hist[1].stores = 1
    /\ hist[1].putkey = <<":", ":", "1", " ">>

(* C15: the fallback policy defaults to FAIL: where no scope of the route  *)
(* set a fallback, every upstream failure other than 404 gives Error{500}. *)
C15_DefaultFallbackFail ==
    \A w \in Workers :
        (UpstreamFailed(w) /\ ~conf.fallback_set) => Error500(verdict[w])

(* C16: the upstream query is isolated from the request it is made for:   *)
(* what the sub-request reads is an end of stream and no byte of the       *)
(* request's body, and the upstream's answer goes to the response field    *)
(* only, never to the request's own output.                                *)
C16_Isolated ==
    \A w \in Workers :
        /\ hist[w].mainread = 0
        /\ hist[w].mainout = NULL
        /\ (hist[w].upstream = 1 /\ pc[w] # "running") =>
              hist[w].input = <<"EOS">>
        /\ (hist[w].filtered /\ pc[w] = "running") =>
              (IF r[w].shared THEN conf.response ELSE own[w]) # NULL

C16_Witness ==
    \E w \in Workers :
        /\ Done(w)
        /\ hist[w].filtered
        /\ hist[w].input = <<"EOS">>
        /\ hist[w].recorded = BODY_BAN
        /\ hist[w].class = BODY_BAN
        /\ hist[w].mainout = NULL

\* a route record whose fallback is one of the three policies and whose
\* blocked status code, where set, is 403, 429 or 500
ValidRoute(c) ==
    /\ c.fallback \in {CROWDSEC_FAIL, CROWDSEC_BLOCK, CROWDSEC_ALLOW}
    /\ c.blockedhttpcode_set =>
          c.blockedhttpcode \in {HTTP_FORBIDDEN, HTTP_TOO_MANY_REQUESTS,
                                 HTTP_INTERNAL_SERVER_ERROR}

C18_PutNeverWaits ==
    [][\A w \in Workers :
          /\ (pc[w] = "running"
              /\ hist'[w].lockst \in {APR_EBUSY, APR_EGENERAL}) =>
                /\ pc'[w] = "done"
                /\ cache' = cache
                /\ mutex' = mutex
                /\ hist'[w].stores = 0
                /\ hist'[w].unlocks = 0
                /\ verdict'[w] = ExpectedVerdict(w)'
          /\ (pc[w] = "running" /\ pc'[w] = "store") =>
                /\ mutex[ServerConf(w).cache_mutex] = 0
                /\ mutex'[ServerConf(w).cache_mutex] = w]_vars

C18_Witness ==
    \E w1 \in Workers, w2 \in Workers :
        /\ Done(w1)
        /\ hist[w1].lockst = APR_EBUSY
        /\ hist[w1].stores = 0
        /\ hist[w1].class = BODY_NULL
        /\ Allow(verdict[w1])
        /\ pc[w2] = "store"
        /\ mutex["main"] = w2
        /\ cache[crowdsec_cache_key(r[w1].useragent_ip)] = NoEntry

(* C19: a worker that acquired the cache mutex releases it exactly once,   *)
(* in the step that ends crowdsec_to_cache, whether the store succeeded or *)
(* failed; a worker that is not in crowdsec_to_cache holds no mutex, and   *)
(* a mutex is released by its holder only.                                 *)
C19_AcquireThenRelease ==
    /\ [](\A w \in Workers :
            /\ (\E m \in Servers : mutex[m] = w) => pc[w] = "store"
            /\ pc[w] = "store" =>
                  /\ mutex[ServerConf(w).cache_mutex] = w
                  /\ hist[w].unlocks = 0
            /\ Done(w) =>
                  /\ hist[w].unlocks
                        = (IF hist[w].lockst = APR_SUCCESS THEN 1 ELSE 0)
                  /\ hist[w].stores = hist[w].unlocks)
    /\ [][\A m \in Servers :
            (mutex[m] # 0 /\ mutex'[m] # mutex[m]) =>
                /\ mutex'[m] = 0
                /\ pc[mutex[m]] = "store"
                /\ pc'[mutex[m]] = "done"
                /\ hist'[mutex[m]].unlocks = 1]_vars

C19_Witness ==
    \E w \in Workers :
        /\ Done(w)
        /\ hist[w].lockst = APR_SUCCESS
        /\ hist[w].storest = APR_EGENERAL
        /\ hist[w].unlocks = 1
        /\ \A m \in Servers : mutex[m] = 0

(* C20: at most one worker at a time is in the store of a cache instance:  *)
(* the workers of every server that uses the instance, those of a virtual  *)
(* host that inherited the provider by merge included, exclude each other. *)
C20_OneWriterPerInstance ==
    \A w1 \in Workers, w2 \in Workers :
        (w1 # w2 /\ pc[w1] = "store" /\ pc[w2] = "store") =>
            ServerConf(w1).cache_instance # ServerConf(w2).cache_instance

(* C21: the classification crowdsec_proxy takes from the upstream on a     *)
(* cache miss, which decides the verdict and goes to the cache under the   *)
(* request's address, is the body crowdsec_out_filter captured during that *)
(* request's own upstream call, not one captured for another request,      *)
(* earlier or concurrent.                                                  *)
C21_CapturedIsOwn ==
    \A w \in Workers :
        (hist[w].source = "upstream" /\ hist[w].filtered
         /\ pc[w] # "running") =>
            /\ hist[w].recorded = hist[w].captured
            /\ pc[w] = "store" => response[w] = hist[w].captured
            /\ Done(w) => hist[w].class = hist[w].captured

\* the cache key of the request worker w is serving
KeyOf(w) == crowdsec_cache_key(r[w].useragent_ip)

C23_RoundTrip ==
    \A w \in Workers :
        (/\ Done(w)
         /\ hist[w].source = "upstream"
         /\ hist[w].rrstatus = HTTP_OK
         /\ hist[w].lockst = APR_SUCCESS
         /\ hist[w].storest = APR_SUCCESS) =>
            /\ cache[KeyOf(w)]
                  = [val |-> hist[w].recorded,
                     expiry |-> now + ServerConf(w).cache_timeout]
            /\ now < cache[KeyOf(w)].expiry =>
                  crowdsec_from_cache(ServerConf(w), cache,
                                      r[w].useragent_ip, now,
                                      FALSE).response = hist[w].recorded

(* C24: every cache instance is initialised exactly once, when the server  *)
(* start-up is finished, and destroyed at most once at shutdown, whatever  *)
(* virtual hosts there are, those that inherit the provider by merge       *)
(* included; no init happens in a merge or during a request.               *)
C24_InitOnceDestroyOnce ==
    \A i \in Instances :
        /\ socache[i].inits <= 1
        /\ socache[i].destroys <= 1
        /\ (phase = "serving"
            /\ i \in {sconf.cache_instance, vhost.cache_instance}) =>
              socache[i].inits = 1
        /\ phase = "config" => socache[i].inits = 0

C26_EventuallyVerdict ==
    /\ [](\A w \in Workers :
            pc[w] \in {"idle", "running"} =>
                \A m \in Servers : mutex[m] # w)
    /\ \A w \in Workers :
          (pc[w] \in {"running", "store"}) ~> (pc[w] = "done")

C26_Witness ==
    \E w1 \in Workers, w2 \in Workers :
        /\ pc[w1] = "running"
        /\ hist[w1].filtered
        /\ pc[w2] = "store"
        /\ mutex["main"] = w2
        /\ response[w2] = BODY_BAN

\* the first position from from on where string s has character c, 0 when
\* it has none
IndexFrom(s, c, from) ==
    IF \E i \in from..Len(s) : s[i] = c
    THEN CHOOSE i \in from..Len(s) :
             s[i] = c /\ \A j \in from..(i - 1) : s[j] # c
    ELSE 0

\* url taken apart by position: the scheme ends at the first ':', which
\* "//" must follow; the authority ends at the next '/' or with the
\* string; the path is what comes after that '/' (absent when empty), or,
\* with_slash, what begins with that '/'
ExpectedUrl(url, with_slash) ==
    LET colon == IndexFrom(url, ":", 1)
        start == colon + 3
        slash == IndexFrom(url, "/", start)
        authority == IF slash = 0 THEN SubSeq(url, start, Len(url))
                     ELSE SubSeq(url, start, slash - 1)
        path == IF slash = 0 THEN NULLP
                ELSE IF with_slash THEN Ptr(SubSeq(url, slash, Len(url)))
                ELSE IF slash = Len(url) THEN NULLP
                ELSE Ptr(SubSeq(url, slash + 1, Len(url)))
    IN  IF colon = 0
        THEN [err |-> "invalid lapi base url: scheme is missing",
              url |-> NULLP]
        ELSE IF ~(/\ colon + 2 <= Len(url)
                  /\ url[colon + 1] = "/"
                  /\ url[colon + 2] = "/")
        THEN [err |-> "invalid lapi base url: \"//\" after scheme not found",
              url |-> NULLP]
        ELSE IF authority = <<>> /\ path = NULLP
        THEN [err |-> "invalid lapi base url: authority is missing",
              url |-> NULLP]
        ELSE [err |-> NULL,
              url |-> Ptr([scheme |-> SubSeq(url, 1, colon - 1),
                           authority |-> authority, path |-> path])]

\* the last CrowdsecURL was answered as expected: with the expected error,
\* or with the expected parts in the server record
UrlParsedAs(expected) ==
    /\ lastUrl.err = expected.err
    /\ expected.err = NULL => sconf.url = expected.url
    /\ expected.err # NULL => phase = "rejected"

(* C27 as claimed: for every non-empty string, the scheme is what comes    *)
(* before the first ':'; parsing fails without a ':' and when "//" does    *)
(* not follow it; the authority is what comes after "//" up to the next    *)
(* '/' or the end; the path is everything after that '/', absent when      *)
(* empty or when there is no '/'; the missing-authority error is given     *)
(* exactly when the authority is empty and no path follows.                *)
C27_UrlParts ==
    lastUrl.arg # <<>> => UrlParsedAs(ExpectedUrl(lastUrl.arg, FALSE))

(* C27 amended: as claimed, but the path begins with the '/' that ends the *)
(* authority and runs to the end of the string, so it is absent only when  *)
(* no '/' follows the authority, and the missing-authority error is given  *)
(* exactly when the authority is empty and no '/' follows it.              *)
C27_UrlPartsAmended ==
    lastUrl.arg # <<>> => UrlParsedAs(ExpectedUrl(lastUrl.arg, TRUE))

C27_Witness ==
    /\ phase = "config"
    /\ lastUrl.arg = <<"h", ":", "/", "/", "h", "/">>
    /\ sconf.url = Ptr([scheme |-> <<"h">>, authority |-> <<"h">>,
                        path |-> Ptr(<<"/">>)])

(* C28: the error note is put on the request only where the FAIL fallback  *)
(* policy gives Error{500}: a request has the note exactly when its        *)
(* upstream call failed, not with a 404, under FAIL; Allow, Block,         *)
(* Redirect, the 404 error, the error for a response that was not          *)
(* recorded, a failed expression and the BLOCK and ALLOW fallbacks leave   *)
(* the notes as they were.                                                 *)
C28_NoteOnlyOnFail ==
    \A w \in Workers :
        /\ verdict[w].notes <=> (Done(w) /\ hist[w].source = "fail")
        /\ verdict[w].notes =>
              /\ Error500(verdict[w])
              /\ conf.fallback = CROWDSEC_FAIL
              /\ hist[w].upstream = 1
              /\ hist[w].status # OK
              /\ ~NotFound(w)

C28_Witness ==
    \E w \in Workers :
        /\ Done(w)
        /\ verdict[w].notes
        /\ conf.location # NULL
        /\ conf.blockedhttpcode = HTTP_FORBIDDEN
        /\ sconf.cache_mutex # NULL
        /\ hist[w].trylocks = 0

(* C29: on an enabled route of a server that has no API URL every request  *)
(* is allowed, and nothing is done for it: no cache read, no mutex         *)
(* operation, no store, no sub-request and no upstream call.               *)
C29_NoUrlAllows ==
    \A w \in Workers :
        (Done(w) /\ conf.enable /\ ServerConf(w).url = NULLP) =>
            /\ Allow(verdict[w])
            /\ verdict[w].location = NULL
            /\ ~verdict[w].notes
            /\ NoCacheUse(w)
            /\ hist[w].subreq = 0
            /\ hist[w].upstream = 0

C29_Witness ==
    \E w \in Workers :
        /\ Done(w)
        /\ conf.enable
        /\ ~r[w].main
        /\ sconf.url = NULLP
        /\ sconf.cache_provider # NULL
        /\ sconf.cache_mutex # NULL
        /\ Allow(verdict[w])

=============================================================================
